---------------------------- MODULE Spec2Model ----------------------------
(***************************************************************************)
(* GFF3 reader and writer of skbio/io/format/gff3.py.                      *)
(*                                                                         *)
(* Text is a sequence of one-character strings; a line of the file is the  *)
(* flat sequence of its characters, tabs included, so that str.split,      *)
(* str.join, int and str are computed and not assumed.  fh is what         *)
(* _line_generator(fh, skip_blanks=True, strip=True) hands to the reader:  *)
(* the non-blank lines of the file, each without surrounding whitespace.   *)
(* An IntervalMetadata object is the sequence of its intervals in          *)
(* insertion order (obj._intervals); an interval is a record of its bounds *)
(* (a sequence of <<start, end>> pairs) and its metadata (a function from  *)
(* key to text).                                                           *)
(***************************************************************************)
EXTENDS Integers, Sequences, FiniteSets, TLC

VARIABLES
    fh,         \* the lines the line generator yields, in file order
    imd,        \* the caller's IntervalMetadata (read target, write source)
    imds,       \* the caller's dict seq ID -> IntervalMetadata (_gff3_to_generator)
    calls,      \* entry points called so far, in call order
    mode,       \* entry point that is running or ran last
    pc,         \* position of control
    err,        \* exception that ended the last call, or "none"
    rec_num,    \* argument of _gff3_to_interval_metadata
    imd0,       \* imd as it was when the reader was called
    fpos,       \* _yield_record: lines taken from the line generator
    lines,      \* _yield_record: local `lines`
    current,    \* _yield_record: local `current`
    exhausted,  \* _yield_record: the generator has run to its last yield
    groups,     \* (seq_id, lines) pairs _yield_record has yielded, in order
    plines,     \* _parse_record: argument `lines`
    pidx,       \* _parse_record: lines of plines already handled
    plog,       \* _parse_record: per handled line, the line and what happened
    gkey,       \* _gff3_to_generator: key used for the current lookup
    results,    \* _gff3_to_generator: objects yielded, in order
    seq_id,     \* _interval_metadata_to_gff3: argument `seq_id`
    out,        \* _interval_metadata_to_gff3: lines printed to fh, in order
    wi,         \* writer: index of the current interval (0 before the first)
    wb,         \* writer: bounds of the current interval already printed
    columns     \* writer: local `columns`

VARIABLES
    attr_s,     \* _parse_attr: argument `s`
    attr_i,     \* _parse_attr: segments of s.split(';') already handled
    attr_md,    \* _parse_attr: local `md`
    attr_pc,    \* _parse_attr: "loop", "returned" or "raised"
    attr_err    \* _parse_attr: exception raised, or "none"

VARIABLES
    sniff_fh,     \* _gff3_sniffer: the lines of the file as they are, each
                  \* with its line end
    sniff_pc,     \* _gff3_sniffer: position of control
    sniff_count,  \* _too_many_blanks: local `count`
    sniff_pos,    \* lines taken from the file by the running loop
    sniff_line,   \* _gff3_sniffer: local `line`
    sniff_result  \* _gff3_sniffer: the pair returned, <<>> before the return

yieldVars == <<fpos, lines, current, exhausted, groups>>
parseVars == <<plines, pidx, plog>>
writeVars == <<seq_id, out, wi, wb, columns>>
attrVars  == <<attr_s, attr_i, attr_md, attr_pc, attr_err>>
sniffVars == <<sniff_fh, sniff_pc, sniff_count, sniff_pos, sniff_line, sniff_result>>
readerVars == <<fh, imd, imds, calls, mode, pc, err, rec_num, imd0, gkey,
                results, yieldVars, parseVars, writeVars>>

vars == <<fh, imd, imds, calls, mode, pc, err, rec_num, imd0, fpos, lines,
          current, exhausted, groups, plines, pidx, plog, gkey, results,
          seq_id, out, wi, wb, columns, attrVars, sniffVars>>

----------------------------------------------------------------------------
(* Bounds *)

\* lines of the input plus records the caller adds before a call
MaxSize == 3

----------------------------------------------------------------------------
(* Python text primitives *)

Digit == {"0", "1", "2", "3", "4", "5", "6", "7", "8", "9"}

DigitVal(c) ==
    CASE c = "0" -> 0 [] c = "1" -> 1 [] c = "2" -> 2 [] c = "3" -> 3
      [] c = "4" -> 4 [] c = "5" -> 5 [] c = "6" -> 6 [] c = "7" -> 7
      [] c = "8" -> 8 [] c = "9" -> 9

DigitChar(d) ==
    CASE d = 0 -> "0" [] d = 1 -> "1" [] d = 2 -> "2" [] d = 3 -> "3"
      [] d = 4 -> "4" [] d = 5 -> "5" [] d = 6 -> "6" [] d = 7 -> "7"
      [] d = 8 -> "8" [] d = 9 -> "9"

\* s.split(sep): the texts between the separators; never empty
RECURSIVE split(_, _)
split(s, sep) ==
    IF \A i \in 1..Len(s) : s[i] # sep
    THEN <<s>>
    ELSE LET i == CHOOSE k \in 1..Len(s) :
                      s[k] = sep /\ \A j \in 1..(k - 1) : s[j] # sep
         IN  <<SubSeq(s, 1, i - 1)>> \o split(SubSeq(s, i + 1, Len(s)), sep)

\* s.split(sep, 1): cut at the first separator only
split1(s, sep) ==
    IF \A i \in 1..Len(s) : s[i] # sep
    THEN <<s>>
    ELSE LET i == CHOOSE k \in 1..Len(s) :
                      s[k] = sep /\ \A j \in 1..(k - 1) : s[j] # sep
         IN  <<SubSeq(s, 1, i - 1), SubSeq(s, i + 1, Len(s))>>

\* sep.join(parts)
RECURSIVE join(_, _)
join(parts, sep) ==
    IF parts = <<>> THEN <<>>
    ELSE IF Len(parts) = 1 THEN parts[1]
    ELSE parts[1] \o <<sep>> \o join(Tail(parts), sep)

\* s.startswith(c) for a one-character prefix
startswith(s, c) == Len(s) >= 1 /\ s[1] = c

\* the text is a decimal literal int() accepts: an optional sign, then digits
IsIntLiteral(s) ==
    LET body == IF Len(s) >= 1 /\ s[1] \in {"+", "-"} THEN Tail(s) ELSE s
    IN  Len(body) >= 1 /\ \A i \in 1..Len(body) : body[i] \in Digit

RECURSIVE DecValue(_)
DecValue(s) ==
    IF s = <<>> THEN 0
    ELSE 10 * DecValue(SubSeq(s, 1, Len(s) - 1)) + DigitVal(s[Len(s)])

\* int(s) for a text IsIntLiteral accepts
int(s) ==
    IF s[1] = "-" THEN 0 - DecValue(Tail(s))
    ELSE IF s[1] = "+" THEN DecValue(Tail(s))
    ELSE DecValue(s)

RECURSIVE NatStr(_)
NatStr(n) ==
    IF n < 10 THEN <<DigitChar(n)>>
    ELSE NatStr(n \div 10) \o <<DigitChar(n % 10)>>

\* str(n) for an integer n
str(n) == IF n < 0 THEN <<"-">> \o NatStr(0 - n) ELSE NatStr(n)

----------------------------------------------------------------------------
(* Inputs *)

TAB == "\t"
Dot == <<".">>

\* the sentinel False of _yield_record; no text equals it
PyFalse == <<"False">>

SeqA == <<"a">>
SeqB == <<"b">>
SeqIds == {SeqA, SeqB}

AttrX == <<"I", "=", "x">>

\* data lines and a comment line the input is drawn from
LineGoodA    == join(<<SeqA, Dot, <<"g">>, <<"1">>, <<"9">>, Dot, <<"+">>, Dot, Dot>>, TAB)
LineAttrA    == join(<<SeqA, <<"s">>, <<"g">>, <<"7">>, <<"1", "2">>, <<"1", ".", "8">>, <<"-">>, Dot, AttrX>>, TAB)
LineGoodB    == join(<<SeqB, Dot, <<"g">>, <<"0", "7">>, <<"9">>, Dot, <<"+">>, Dot, Dot>>, TAB)
LinePhase0   == join(<<SeqA, <<"s">>, <<"c">>, <<"1">>, <<"9">>, Dot, <<"+">>, <<"0">>, Dot>>, TAB)
LinePhaseAbc == join(<<SeqA, <<"s">>, <<"c">>, <<"1">>, <<"9">>, Dot, <<"+">>, <<"a", "b", "c">>, Dot>>, TAB)
Line8Cols    == join(<<SeqA, Dot, <<"g">>, <<"1">>, <<"9">>, Dot, <<"+">>, Dot>>, TAB)
Line10Cols   == join(<<SeqA, Dot, <<"g">>, <<"1">>, <<"9">>, Dot, <<"+">>, Dot, Dot, <<"x">>>>, TAB)
LineNoTab    == <<"a", "b">>
LineComment  == <<"#", "c">>

LinePool == {LineGoodA, LineAttrA, LineGoodB, LinePhase0, LinePhaseAbc,
             Line8Cols, Line10Cols, LineNoTab, LineComment}

RECURSIVE SeqsUpTo(_, _)
SeqsUpTo(S, n) ==
    IF n = 0 THEN {<<>>}
    ELSE LET shorter == SeqsUpTo(S, n - 1)
         IN  shorter \cup {Append(s, x) : s \in shorter, x \in S}

Streams == SeqsUpTo(LinePool, MaxSize)

\* intervals a caller adds to a collection before a call
RecTwoBounds == [bounds   |-> <<<<0, 5>>, <<9, 12>>>>,
                 metadata |-> ("source" :> <<"s">>) @@ ("type" :> <<"g">>)
                              @@ ("ATTR" :> AttrX)]
RecFull      == [bounds   |-> <<<<2, 3>>>>,
                 metadata |-> ("source" :> <<"p">>) @@ ("type" :> <<"c">>)
                              @@ ("score" :> <<"1", ".", "8">>)
                              @@ ("strand" :> <<"+">>) @@ ("phase" :> <<"0">>)
                              @@ ("ATTR" :> <<"N", "=", "y">>)]
RecBare      == [bounds   |-> <<<<14, 20>>>>,
                 metadata |-> ("type" :> <<"g">>)]

RecordPool == {RecTwoBounds, RecFull, RecBare}

----------------------------------------------------------------------------
(* Collaborators *)

\* IntervalMetadata.add(bounds, metadata=metadata): one more interval, last
add(interval_metadata, bounds, metadata) ==
    Append(interval_metadata, [bounds |-> bounds, metadata |-> metadata])

\* the column names the writer walks; the writer skips the first.  gff3.py
\* uses the name (line 267) and does not define it: the order is that of the
\* format's nine columns, START and END are the literals the writer compares
\* with, and the other names are the metadata keys _parse_record stores and
\* the attributes key of the writer's test.
_GFF3_HEADERS ==
    <<"SEQID", "source", "type", "START", "END", "score", "strand", "phase", "ATTR">>

----------------------------------------------------------------------------
(* _parse_record, one line *)

\* isinstance(phase, int): phase is an element of str.split's result, a str
isinstance_int(phase) == FALSE

ColumnsError == "GFF3FormatError: do not have 9 columns in this line"
PhaseError   == "GFF3FormatError: unknown value for phase column"

\* mutant: the check lets lines with more than 9 columns through
WrongColumnCountTooFew(cols) == Len(cols) < 9

\* if len(columns) != 9
WrongColumnCount(cols) == Len(cols) # 9

\* mutant: the start is stored as read, 1-based
ParseBoundsOneBased(start, end) == <<<<int(start), int(end)>>>>

\* bounds = [(int(start)-1, int(end))]
ParseBounds(start, end) == <<<<int(start) - 1, int(end)>>>>

\* the metadata dict literal of _parse_record
ParseMetadata(cols) ==
    ("source" :> cols[2]) @@ ("type" :> cols[3])
      @@ ("score" :> cols[6]) @@ ("strand" :> cols[7])

\* the phase column is acceptable to _parse_record
PhaseAccepted(phase) == isinstance_int(phase) \/ phase = Dot

\* the body of the loop of _parse_record on one line: what is raised, or the
\* arguments of interval_metadata.add
ParseLine(line) ==
    LET cols == split(line, TAB) IN
    IF WrongColumnCount(cols)
    THEN [outcome |-> ColumnsError, bounds |-> <<>>, metadata |-> <<>>]
    ELSE LET phase == cols[8]
             metadata == IF isinstance_int(phase)
                         THEN ParseMetadata(cols) @@ ("phase" :> int(phase))
                         ELSE ParseMetadata(cols)
         IN  IF ~PhaseAccepted(phase)
             THEN [outcome |-> PhaseError, bounds |-> <<>>, metadata |-> <<>>]
             ELSE IF ~(IsIntLiteral(cols[4]) /\ IsIntLiteral(cols[5]))
             THEN [outcome |-> "ValueError", bounds |-> <<>>, metadata |-> <<>>]
             ELSE [outcome  |-> "added",
                   bounds   |-> ParseBounds(cols[4], cols[5]),
                   metadata |-> metadata]

----------------------------------------------------------------------------
(* _interval_metadata_to_gff3, one column *)

HeaderLine ==
    <<"#", "#", "g", "f", "f", "-", "v", "e", "r", "s", "i", "o", "n", " ", "3">>

\* mutant: a key the metadata lacks gives an empty column
WriteColumnEmptyIfMissing(head, md, bound) ==
    IF head = "START" THEN str(bound[1] + 1)
    ELSE IF head = "END" THEN str(bound[2])
    ELSE IF head \in DOMAIN md THEN md[head]
    ELSE <<>>

\* the if/elif chain inside `for head in _GFF3_HEADERS[1:]`
WriteColumn(head, md, bound) ==
    IF head = "START" THEN str(bound[1] + 1)
    ELSE IF head = "END" THEN str(bound[2])
    ELSE IF head \in DOMAIN md THEN md[head]
    ELSE Dot

\* `columns` after the inner loop over the headers has run for one bound
ExtendColumns(cols, md, bound) ==
    cols \o [h \in 1..(Len(_GFF3_HEADERS) - 1) |->
                WriteColumn(_GFF3_HEADERS[h + 1], md, bound)]

----------------------------------------------------------------------------
(* State machine *)

\* no call of the reader or the writer has been made
ReaderIdle ==
    /\ imd = <<>>
    /\ imds = [k \in SeqIds |-> <<>>]
    /\ calls = <<>>
    /\ mode = "none"
    /\ pc = "idle"
    /\ err = "none"
    /\ rec_num = 1
    /\ imd0 = <<>>
    /\ fpos = 0
    /\ lines = <<>>
    /\ current = PyFalse
    /\ exhausted = FALSE
    /\ groups = <<>>
    /\ plines = <<>>
    /\ pidx = 0
    /\ plog = <<>>
    /\ gkey = PyFalse
    /\ results = <<>>
    /\ seq_id = SeqA
    /\ out = <<>>
    /\ wi = 0
    /\ wb = 0
    /\ columns = <<>>

\* _parse_attr is not in use
AttrIdle ==
    /\ attr_s = <<>>
    /\ attr_i = 0
    /\ attr_md = <<>>
    /\ attr_pc = "idle"
    /\ attr_err = "none"

\* _gff3_sniffer is not in use
SniffIdle ==
    /\ sniff_fh = <<>>
    /\ sniff_pc = "idle"
    /\ sniff_count = 0
    /\ sniff_pos = 0
    /\ sniff_line = <<>>
    /\ sniff_result = <<>>

Init ==
    /\ fh \in Streams
    /\ ReaderIdle
    /\ AttrIdle
    /\ SniffIdle

\* the caller fills its collection before it calls the reader or the writer
CallerAdd ==
    /\ pc = "idle"
    /\ calls = <<>>
    /\ Len(fh) + Len(imd) < MaxSize
    /\ \E r \in RecordPool : imd' = add(imd, r.bounds, r.metadata)
    /\ UNCHANGED <<fh, imds, calls, mode, pc, err, rec_num, imd0, gkey, results>>
    /\ UNCHANGED <<yieldVars, parseVars, writeVars, attrVars, sniffVars>>

\* _gff3_to_interval_metadata(fh, interval_metadata, rec_num=n) is entered:
\* _get_nth_record starts to draw from _yield_record(fh)
CallRead ==
    /\ pc = "idle"
    /\ calls = <<>>
    /\ \E n \in 1..(Len(fh) + 1) : rec_num' = n
    /\ calls' = Append(calls, "read")
    /\ mode' = "read"
    /\ imd0' = imd
    /\ pc' = "yield"
    /\ UNCHANGED <<fh, imd, imds, err, gkey, results>>
    /\ UNCHANGED <<yieldVars, parseVars, writeVars, attrVars, sniffVars>>

\* _gff3_to_generator(fh, interval_metadata) is entered and drawn from
CallGenerator ==
    /\ pc = "idle"
    /\ calls = <<>>
    /\ calls' = Append(calls, "gen")
    /\ mode' = "gen"
    /\ imd0' = imd
    /\ pc' = "yield"
    /\ UNCHANGED <<fh, imd, imds, err, rec_num, gkey, results>>
    /\ UNCHANGED <<yieldVars, parseVars, writeVars, attrVars, sniffVars>>

\* one iteration of the for loop of _yield_record
YieldRecordLine ==
    /\ pc = "yield"
    /\ fpos < Len(fh)
    /\ fpos' = fpos + 1
    /\ LET line == fh[fpos + 1] IN
       IF startswith(line, "#")
       THEN UNCHANGED <<lines, current, groups, pc, err>>
       ELSE IF Len(split1(line, TAB)) # 2
       THEN \* `seq_id, _ = ...` cannot unpack a single text
            /\ err' = "ValueError"
            /\ pc' = "idle"
            /\ UNCHANGED <<lines, current, groups>>
       ELSE LET id == split1(line, TAB)[1] IN
            IF current = id \/ current = PyFalse
            THEN /\ lines' = Append(lines, line)
                 /\ UNCHANGED <<current, groups, pc, err>>
            ELSE /\ groups' = Append(groups, [seq_id |-> current, lines |-> lines])
                 /\ current' = PyFalse
                 /\ pc' = "got"
                 /\ UNCHANGED <<lines, err>>
    /\ UNCHANGED <<fh, imd, imds, calls, mode, rec_num, imd0, exhausted, gkey, results>>
    /\ UNCHANGED <<parseVars, writeVars, attrVars, sniffVars>>

\* mutant: the final yield does not end the generator, which yields the
\* accumulated group again when it is resumed
YieldRecordEndAgain ==
    /\ pc = "yield"
    /\ fpos = Len(fh)
    /\ groups' = Append(groups, [seq_id |-> current, lines |-> lines])
    /\ pc' = "got"
    /\ UNCHANGED <<fh, imd, imds, calls, mode, err, rec_num, imd0, fpos, lines,
                   current, exhausted, gkey, results>>
    /\ UNCHANGED <<parseVars, writeVars, attrVars, sniffVars>>

\* the line generator is exhausted: the yield after the loop
YieldRecordEnd ==
    /\ pc = "yield"
    /\ fpos = Len(fh)
    /\ ~exhausted
    /\ groups' = Append(groups, [seq_id |-> current, lines |-> lines])
    /\ exhausted' = TRUE
    /\ pc' = "got"
    /\ UNCHANGED <<fh, imd, imds, calls, mode, err, rec_num, imd0, fpos, lines,
                   current, gkey, results>>
    /\ UNCHANGED <<parseVars, writeVars, attrVars, sniffVars>>

\* _get_nth_record has received one more group: the rec_num-th is returned and
\* parsed, after the last group of a shorter stream it raises
GetNthRecord ==
    /\ pc = "got"
    /\ mode = "read"
    /\ IF Len(groups) = rec_num
       THEN /\ plines' = groups[Len(groups)].lines
            /\ pidx' = 0
            /\ plog' = <<>>
            /\ pc' = "parse"
            /\ err' = err
       ELSE IF exhausted
       THEN /\ err' = "ValueError"
            /\ pc' = "idle"
            /\ UNCHANGED parseVars
       ELSE /\ pc' = "yield"
            /\ err' = err
            /\ UNCHANGED parseVars
    /\ UNCHANGED <<fh, imd, imds, calls, mode, rec_num, imd0, gkey, results>>
    /\ UNCHANGED <<yieldVars, writeVars, attrVars, sniffVars>>

\* the body of the for loop of _gff3_to_generator up to the call of
\* _parse_record: imd = interval_metadata[seq_id]
GeneratorLookup ==
    /\ pc = "got"
    /\ mode = "gen"
    /\ LET key == groups[Len(groups)].seq_id IN
       IF key \notin DOMAIN imds
       THEN /\ err' = "KeyError"
            /\ pc' = "idle"
            /\ UNCHANGED <<gkey, parseVars>>
       ELSE /\ gkey' = key
            /\ plines' = groups[Len(groups)].lines
            /\ pidx' = 0
            /\ plog' = <<>>
            /\ pc' = "parse"
            /\ err' = err
    /\ UNCHANGED <<fh, imd, imds, calls, mode, rec_num, imd0, results>>
    /\ UNCHANGED <<yieldVars, writeVars, attrVars, sniffVars>>

\* mutant: the record is added before the line is validated
ParseRecordLineAddsFirst ==
    /\ pc = "parse"
    /\ pidx < Len(plines)
    /\ pidx' = pidx + 1
    /\ LET line == plines[pidx + 1]
           res  == ParseLine(line)
       IN  /\ plog' = Append(plog, [line |-> line, outcome |-> res.outcome])
           /\ IF mode = "read"
              THEN /\ imd' = add(imd, res.bounds, res.metadata)
                   /\ imds' = imds
              ELSE /\ imds' = [imds EXCEPT
                                 ![gkey] = add(@, res.bounds, res.metadata)]
                   /\ imd' = imd
           /\ IF res.outcome = "added"
              THEN UNCHANGED <<pc, err>>
              ELSE err' = res.outcome /\ pc' = "idle"
    /\ UNCHANGED <<fh, calls, mode, rec_num, imd0, plines, gkey, results>>
    /\ UNCHANGED <<yieldVars, writeVars, attrVars, sniffVars>>

\* mutant: a failure restores the collection the reader was called with
ParseRecordLineRollsBack ==
    /\ pc = "parse"
    /\ pidx < Len(plines)
    /\ pidx' = pidx + 1
    /\ LET line == plines[pidx + 1]
           res  == ParseLine(line)
       IN  /\ plog' = Append(plog, [line |-> line, outcome |-> res.outcome])
           /\ IF res.outcome = "added"
              THEN /\ IF mode = "read"
                      THEN /\ imd' = add(imd, res.bounds, res.metadata)
                           /\ imds' = imds
                      ELSE /\ imds' = [imds EXCEPT
                                         ![gkey] = add(@, res.bounds, res.metadata)]
                           /\ imd' = imd
                   /\ UNCHANGED <<pc, err>>
              ELSE /\ err' = res.outcome
                   /\ pc' = "idle"
                   /\ imd' = imd0
                   /\ imds' = imds
    /\ UNCHANGED <<fh, calls, mode, rec_num, imd0, plines, gkey, results>>
    /\ UNCHANGED <<yieldVars, writeVars, attrVars, sniffVars>>

\* one iteration of the for loop of _parse_record
ParseRecordLine ==
    /\ pc = "parse"
    /\ pidx < Len(plines)
    /\ pidx' = pidx + 1
    /\ LET line == plines[pidx + 1]
           res  == ParseLine(line)
       IN  /\ plog' = Append(plog, [line |-> line, outcome |-> res.outcome])
           /\ IF res.outcome = "added"
              THEN /\ IF mode = "read"
                      THEN /\ imd' = add(imd, res.bounds, res.metadata)
                           /\ imds' = imds
                      ELSE /\ imds' = [imds EXCEPT
                                         ![gkey] = add(@, res.bounds, res.metadata)]
                           /\ imd' = imd
                   /\ UNCHANGED <<pc, err>>
              ELSE /\ err' = res.outcome
                   /\ pc' = "idle"
                   /\ UNCHANGED <<imd, imds>>
    /\ UNCHANGED <<fh, calls, mode, rec_num, imd0, plines, gkey, results>>
    /\ UNCHANGED <<yieldVars, writeVars, attrVars, sniffVars>>

\* `return interval_metadata` of _parse_record: the reader returns, the
\* generator yields the object and goes on with the next group
ParseRecordReturn ==
    /\ pc = "parse"
    /\ pidx = Len(plines)
    /\ IF mode = "read"
       THEN /\ pc' = "idle"
            /\ results' = results
       ELSE /\ results' = Append(results, [key |-> gkey, imd |-> imds[gkey]])
            /\ pc' = IF exhausted THEN "idle" ELSE "yield"
    /\ UNCHANGED <<fh, imd, imds, calls, mode, err, rec_num, imd0, gkey>>
    /\ UNCHANGED <<yieldVars, parseVars, writeVars, attrVars, sniffVars>>

\* _interval_metadata_to_gff3(imd, fh, seq_id) is entered and prints the header
CallWrite ==
    /\ pc = "idle"
    /\ err = "none"
    /\ \A i \in 1..Len(calls) : calls[i] # "write"
    /\ \E s \in SeqIds : seq_id' = s
    /\ calls' = Append(calls, "write")
    /\ mode' = "write"
    /\ out' = <<HeaderLine>>
    /\ wi' = 0
    /\ wb' = 0
    /\ columns' = <<>>
    /\ pc' = "write"
    /\ UNCHANGED <<fh, imd, imds, err, rec_num, imd0, gkey, results>>
    /\ UNCHANGED <<yieldVars, parseVars, attrVars, sniffVars>>

\* the bounds of the current interval are all printed (or none is current)
IntervalFinished == IF wi = 0 THEN TRUE ELSE wb = Len(imd[wi].bounds)

\* the outer loop takes the next interval: columns = [seq_id]
WriteInterval ==
    /\ pc = "write"
    /\ IntervalFinished
    /\ wi < Len(imd)
    /\ wi' = wi + 1
    /\ wb' = 0
    /\ columns' = <<seq_id>>
    /\ UNCHANGED <<fh, imd, imds, calls, mode, pc, err, rec_num, imd0, gkey,
                   results, seq_id, out>>
    /\ UNCHANGED <<yieldVars, parseVars, attrVars, sniffVars>>

\* mutant: the bounds of an interval are walked last to first
CurrentBoundReversed == imd[wi].bounds[Len(imd[wi].bounds) - wb]

\* `bound` of the inner loop: the bounds of the interval in stored order
CurrentBound == imd[wi].bounds[wb + 1]

\* the inner loop takes the next bound: the columns are appended and printed
WriteBound ==
    /\ pc = "write"
    /\ wi >= 1
    /\ wb < Len(imd[wi].bounds)
    /\ wb' = wb + 1
    /\ columns' = ExtendColumns(columns, imd[wi].metadata, CurrentBound)
    /\ out' = Append(out, join(columns', TAB))
    /\ UNCHANGED <<fh, imd, imds, calls, mode, pc, err, rec_num, imd0, gkey,
                   results, seq_id, wi>>
    /\ UNCHANGED <<yieldVars, parseVars, attrVars, sniffVars>>

\* the outer loop is over: the writer returns
WriteReturn ==
    /\ pc = "write"
    /\ IntervalFinished
    /\ wi = Len(imd)
    /\ pc' = "idle"
    /\ UNCHANGED <<fh, imd, imds, calls, mode, err, rec_num, imd0, gkey, results>>
    /\ UNCHANGED <<yieldVars, parseVars, writeVars, attrVars, sniffVars>>

Next ==
    \/ CallerAdd
    \/ CallRead
    \/ CallGenerator
    \/ YieldRecordLine
    \/ YieldRecordEnd
    \/ GetNthRecord
    \/ GeneratorLookup
    \/ ParseRecordLine
    \/ ParseRecordReturn
    \/ CallWrite
    \/ WriteInterval
    \/ WriteBound
    \/ WriteReturn

Spec == Init /\ [][Next]_vars

\* ------------------------------------------------------------------
\* _parse_attr: the attribute column as a mapping
\* ------------------------------------------------------------------

\* segments of one attribute string
MaxSegments == 3

TagId    == <<"I", "D">>
LocusTag == <<"l", "o", "c", "u", "s", "_", "t", "a", "g">>

\* _vocabulary_change('gff3'): the format's tag -> canonical key
_vocabulary_change == [k \in {TagId} |-> LocusTag]

SegId         == TagId \o <<"=", "g">>
SegName1      == <<"N", "=", "e">>
SegName2      == <<"N", "=", "f">>
SegLocus      == LocusTag \o <<"=", "h">>
SegEmptyValue == <<"N", "=">>
SegNoEq       == <<"B">>
SegEmpty      == <<>>
SegTwoEq      == <<"a", "=", "b", "=", "c">>

SegmentPool == {SegId, SegName1, SegName2, SegLocus, SegEmptyValue,
                SegNoEq, SegEmpty, SegTwoEq}

\* attribute strings of one to MaxSegments segments; the empty string is
\* the one made of the empty segment
AttrInputs ==
    {join(segs, ";") : segs \in SeqsUpTo(SegmentPool, MaxSegments) \ {<<>>}}

UnpackError == "ValueError"

\* md[k] = v where the earlier entry of the key stays
DictSetKeepsFirst(md, k, v) ==
    IF \E i \in 1..Len(md) : md[i][1] = k
    THEN md
    ELSE Append(md, <<k, v>>)

\* md[k] = v on a dict held as its items in insertion order
DictSet(md, k, v) ==
    IF \E i \in 1..Len(md) : md[i][1] = k
    THEN [i \in 1..Len(md) |-> IF md[i][1] = k THEN <<k, v>> ELSE md[i]]
    ELSE Append(md, <<k, v>>)

\* if k in voca_change: k = voca_change[k]
VocaKey(k) ==
    IF k \in DOMAIN _vocabulary_change THEN _vocabulary_change[k] ELSE k

InitAttr ==
    /\ fh = <<>>
    /\ ReaderIdle
    /\ SniffIdle
    /\ attr_s \in AttrInputs
    /\ attr_i = 0
    /\ attr_md = <<>>
    /\ attr_pc = "loop"
    /\ attr_err = "none"

\* one turn of `for attr in s.split(';')`
ParseAttrSegment ==
    /\ attr_pc = "loop"
    /\ attr_i < Len(split(attr_s, ";"))
    /\ LET attr == split(attr_s, ";")[attr_i + 1]
           kv   == split(attr, "=")
       IN  IF Len(kv) # 2
           THEN /\ attr_err' = UnpackError
                /\ attr_pc' = "raised"
                /\ UNCHANGED <<attr_i, attr_md>>
           ELSE /\ attr_md' = DictSet(attr_md, VocaKey(kv[1]), kv[2])
                /\ attr_i' = attr_i + 1
                /\ UNCHANGED <<attr_pc, attr_err>>
    /\ UNCHANGED <<attr_s, readerVars, sniffVars>>

\* the loop is over: return md
ParseAttrReturn ==
    /\ attr_pc = "loop"
    /\ attr_i = Len(split(attr_s, ";"))
    /\ attr_pc' = "returned"
    /\ UNCHANGED <<attr_s, attr_i, attr_md, attr_err, readerVars, sniffVars>>

NextAttr ==
    \/ ParseAttrSegment
    \/ ParseAttrReturn

SpecAttr == InitAttr /\ [][NextAttr]_vars

\* ------------------------------------------------------------------
\* _gff3_sniffer: is the file a GFF3 file
\* ------------------------------------------------------------------

\* the blank lines the sniffer accepts before the first line with text
MaxBlanks == 5

\* blank lines at the head of a file
MaxLeadingBlanks == 7

NL == "\n"
Whitespace == {" ", "\t", "\n", "\r", "\f"}

Directive == <<"#", "#", "g", "f", "f", "-", "v", "e", "r", "s", "i", "o", "n">>

BlankNL == <<NL>>
BlankSp == <<" ", "\t", NL>>

LineV3        == Directive \o <<" ", "3", NL>>
LineV321      == Directive \o <<"\t", "3", ".", "2", ".", "1", NL>>
LineV3TwoWs   == Directive \o <<" ", "\t", "3">>
LineV2        == Directive \o <<"\t", "2", NL>>
LineV3NoWs    == Directive \o <<"3", NL>>
LineV3Indent  == <<" ">> \o LineV3
LineNoVersion == Directive \o <<" ", NL>>
LineBare      == Directive \o <<NL>>
LineData      == LineGoodA \o <<NL>>

FirstLines == {LineV3, LineV321, LineV3TwoWs, LineV2, LineV3NoWs,
               LineV3Indent, LineNoVersion, LineBare, LineData}

\* what follows the leading blank lines of a file
Tails == {<<>>} \cup {<<l>> : l \in FirstLines} \cup {<<LineData, LineV3>>}

SniffStreams ==
    {b \o t : b \in SeqsUpTo({BlankNL, BlankSp}, MaxLeadingBlanks), t \in Tails}

\* line.strip()
strip(line) ==
    LET text == {i \in 1..Len(line) : line[i] \notin Whitespace}
    IN  IF text = {} THEN <<>>
        ELSE SubSeq(line,
                    CHOOSE i \in text : \A j \in text : i <= j,
                    CHOOSE i \in text : \A j \in text : j <= i)

\* line.isspace()
isspace(line) == Len(line) >= 1 /\ \A i \in 1..Len(line) : line[i] \in Whitespace

\* _too_many_blanks: `if count > max_blanks`
TooMany(count, max_blanks) == count > max_blanks

\* _line_generator(skip_blanks=True, strip=False): is the line passed over
SkipBlank(line) == isspace(line) \/ line = <<>>

\* the whitespace characters of the line from position `from` on
WhitespaceRun(line, from) ==
    CHOOSE k \in 0..Len(line) :
        /\ from + k - 1 <= Len(line)
        /\ \A j \in from..(from + k - 1) : line[j] \in Whitespace
        /\ (from + k <= Len(line) => line[from + k] \notin Whitespace)

\* re.match(r'##gff-version\s*3', line)
re_match_star(line) ==
    LET n  == Len(Directive)
        ws == WhitespaceRun(line, n + 1)
    IN  /\ Len(line) >= n
        /\ SubSeq(line, 1, n) = Directive
        /\ Len(line) >= n + ws + 1
        /\ line[n + ws + 1] = "3"

\* re.match(r'##gff-version\s+3', line)
re_match(line) ==
    LET n  == Len(Directive)
        ws == WhitespaceRun(line, n + 1)
    IN  /\ Len(line) >= n
        /\ SubSeq(line, 1, n) = Directive
        /\ ws >= 1
        /\ Len(line) >= n + ws + 1
        /\ line[n + ws + 1] = "3"

InitSniff ==
    /\ fh = <<>>
    /\ ReaderIdle
    /\ AttrIdle
    /\ sniff_fh \in SniffStreams
    /\ sniff_pc = "blanks"
    /\ sniff_count = 0
    /\ sniff_pos = 0
    /\ sniff_line = <<>>
    /\ sniff_result = <<>>

\* _too_many_blanks(fh, 5): one line of its loop
TooManyBlanksLine ==
    /\ sniff_pc = "blanks"
    /\ sniff_pos < Len(sniff_fh)
    /\ IF strip(sniff_fh[sniff_pos + 1]) # <<>>
       THEN /\ sniff_pc' = "next"
            /\ sniff_pos' = 0
            /\ UNCHANGED <<sniff_count, sniff_result>>
       ELSE /\ sniff_count' = sniff_count + 1
            /\ IF TooMany(sniff_count + 1, MaxBlanks)
               THEN /\ sniff_result' = <<FALSE, {}>>
                    /\ sniff_pc' = "done"
                    /\ sniff_pos' = 0
               ELSE /\ sniff_pos' = sniff_pos + 1
                    /\ UNCHANGED <<sniff_pc, sniff_result>>
    /\ UNCHANGED <<sniff_fh, sniff_line, readerVars, attrVars>>

\* _too_many_blanks(fh, 5): the file ends within the accepted blank lines
TooManyBlanksEnd ==
    /\ sniff_pc = "blanks"
    /\ sniff_pos = Len(sniff_fh)
    /\ sniff_pc' = "next"
    /\ sniff_pos' = 0
    /\ UNCHANGED <<sniff_fh, sniff_count, sniff_line, sniff_result,
                   readerVars, attrVars>>

\* next(_line_generator(fh, skip_blanks=True, strip=False)): one line read
SniffNextLine ==
    /\ sniff_pc = "next"
    /\ sniff_pos < Len(sniff_fh)
    /\ IF SkipBlank(sniff_fh[sniff_pos + 1])
       THEN /\ sniff_pos' = sniff_pos + 1
            /\ UNCHANGED <<sniff_pc, sniff_line>>
       ELSE /\ sniff_line' = sniff_fh[sniff_pos + 1]
            /\ sniff_pos' = sniff_pos + 1
            /\ sniff_pc' = "match"
    /\ UNCHANGED <<sniff_fh, sniff_count, sniff_result, readerVars, attrVars>>

\* except StopIteration: return False, {}
SniffStopIteration ==
    /\ sniff_pc = "next"
    /\ sniff_pos = Len(sniff_fh)
    /\ sniff_result' = <<FALSE, {}>>
    /\ sniff_pc' = "done"
    /\ UNCHANGED <<sniff_fh, sniff_count, sniff_pos, sniff_line,
                   readerVars, attrVars>>

\* the test of the line against the version directive
SniffMatch ==
    /\ sniff_pc = "match"
    /\ sniff_result' = <<re_match(sniff_line), {}>>
    /\ sniff_pc' = "done"
    /\ UNCHANGED <<sniff_fh, sniff_count, sniff_pos, sniff_line,
                   readerVars, attrVars>>

NextSniff ==
    \/ TooManyBlanksLine
    \/ TooManyBlanksEnd
    \/ SniffNextLine
    \/ SniffStopIteration
    \/ SniffMatch

SpecSniff == InitSniff /\ [][NextSniff]_vars

----------------------------------------------------------------------------
(* What the properties speak of *)

GffVersionLine ==
    <<"#", "#", "g", "f", "f", "-", "v", "e", "r", "s", "i", "o", "n", " ", "3">>

IsComment(line) == Len(line) >= 1 /\ line[1] = "#"

\* the non-comment lines of a stream, in order
DataLines(s) == SelectSeq(s, LAMBDA l : ~IsComment(l))

\* number of tab-separated fields of a line: its tabs plus one
NumFields(line) == Cardinality({i \in 1..Len(line) : line[i] = TAB}) + 1

\* the text before the first tab of a line that has one
LeadingId(line) ==
    LET tabs  == {i \in 1..Len(line) : line[i] = TAB}
        first == CHOOSE i \in tabs : \A j \in tabs : i <= j
    IN  SubSeq(line, 1, first - 1)

\* the k-th tab-separated field of a line, k from 1
Field(line, k) == split(line, TAB)[k]

\* start and end are decimal integers written without sign or leading zero
CanonicalCoordinates(line) ==
    /\ IsIntLiteral(Field(line, 4)) /\ str(int(Field(line, 4))) = Field(line, 4)
    /\ IsIntLiteral(Field(line, 5)) /\ str(int(Field(line, 5))) = Field(line, 5)

\* a data line of 9 columns with integer start and end and phase '.'
WellFormedDot(line) ==
    /\ NumFields(line) = 9
    /\ IsIntLiteral(Field(line, 4))
    /\ IsIntLiteral(Field(line, 5))
    /\ Field(line, 8) = Dot

\* the interval a well-formed line stands for
ExpectedInterval(line) ==
    [bounds   |-> <<<<int(Field(line, 4)) - 1, int(Field(line, 5))>>>>,
     metadata |-> [k \in {"source", "type", "score", "strand"} |->
                     CASE k = "source" -> Field(line, 2)
                       [] k = "type"   -> Field(line, 3)
                       [] k = "score"  -> Field(line, 6)
                       [] k = "strand" -> Field(line, 7)]]

ExpectedIntervals(ls) == [k \in 1..Len(ls) |-> ExpectedInterval(ls[k])]

\* the maximal runs of lines with the same leading id, each with its id
RECURSIVE Runs(_)
Runs(ds) ==
    IF ds = <<>> THEN <<>>
    ELSE LET id == LeadingId(ds[1])
             n  == CHOOSE m \in 1..Len(ds) :
                     /\ \A i \in 1..m : LeadingId(ds[i]) = id
                     /\ (m = Len(ds) \/ LeadingId(ds[m + 1]) # id)
         IN  <<[seq_id |-> id, lines |-> SubSeq(ds, 1, n)]>>
               \o Runs(SubSeq(ds, n + 1, Len(ds)))

\* a stream with at least one data line, all of them well-formed
AllWellFormed(s) ==
    /\ DataLines(s) # <<>>
    /\ \A i \in 1..Len(DataLines(s)) : WellFormedDot(DataLines(s)[i])

\* every data line has 9 columns and the same leading id (and canonical
\* coordinates, so that only verbatim fields are at stake)
WellFormedSingle(s) ==
    LET ds == DataLines(s) IN
    /\ ds # <<>>
    /\ \A i \in 1..Len(ds) :
         /\ NumFields(ds[i]) = 9
         /\ LeadingId(ds[i]) = LeadingId(ds[1])
         /\ CanonicalCoordinates(ds[i])

ReadReturned == calls # <<>> /\ calls[1] = "read" /\ pc = "idle" /\ mode = "read"
GeneratorEnded == calls # <<>> /\ calls[1] = "gen" /\ pc = "idle" /\ mode = "gen"
WriteCalled == \E i \in 1..Len(calls) : calls[i] = "write"
WriteReturned == WriteCalled /\ pc = "idle"

----------------------------------------------------------------------------
(* Properties *)

\* C1: a well-formed single-sequence input read into an empty collection and
\* written back under the same sequence id comes out, after the header line,
\* as exactly its non-comment lines, verbatim and in order.
C1_RoundTripVerbatim ==
    ( /\ calls = <<"read", "write">>
      /\ WriteReturned
      /\ imd0 = <<>>
      /\ rec_num = 1
      /\ WellFormedSingle(fh)
      /\ seq_id = LeadingId(DataLines(fh)[1]) )
    => out = <<GffVersionLine>> \o DataLines(fh)

\* C2: once _yield_record has run to its end, what it has yielded is exactly
\* the maximal runs of data lines with the same leading id, in order, each
\* paired with that id (for a stream with a data line, all with a tab).
C2_YieldsMaximalRuns ==
    ( /\ exhausted
      /\ DataLines(fh) # <<>>
      /\ \A i \in 1..Len(DataLines(fh)) : NumFields(DataLines(fh)[i]) >= 2 )
    => groups = Runs(DataLines(fh))

\* C3: a line handled by _parse_record raises the wrong-column-count error
\* exactly when it does not have 9 tab-separated fields.
C3_ColumnCountValidated ==
    \A k \in 1..Len(plog) :
        (plog[k].outcome = ColumnsError) <=> (NumFields(plog[k].line) # 9)

\* C3 witness: a 9-field line was added, then a 10-field line raised
C3_Witness ==
    /\ Len(plog) = 2
    /\ NumFields(plog[1].line) = 9 /\ plog[1].outcome = "added"
    /\ NumFields(plog[2].line) = 10 /\ plog[2].outcome = ColumnsError
    /\ err = ColumnsError

\* C4: on a 9-column line with integer coordinates, phase '.', '0', '1' and
\* '2' raise nothing and the record is added; phase 'abc' raises the
\* invalid-phase error.
C4_PhaseValidated ==
    \A k \in 1..Len(plog) :
        LET line == plog[k].line IN
        (NumFields(line) = 9 /\ IsIntLiteral(Field(line, 4))
                             /\ IsIntLiteral(Field(line, 5)))
        => /\ Field(line, 8) \in {Dot, <<"0">>, <<"1">>, <<"2">>}
                => plog[k].outcome = "added"
           /\ Field(line, 8) = <<"a", "b", "c">>
                => plog[k].outcome = PhaseError

RunIntervals(s, i) == ExpectedIntervals(Runs(DataLines(s))[i].lines)

\* C6: for an input of k maximal runs with ids s1..sk, all lines well-formed,
\* _gff3_to_generator ends without error having yielded k collections, the
\* i-th looked up under si and holding the features of the i-th run.
C6_GeneratorYieldsRuns ==
    (GeneratorEnded /\ AllWellFormed(fh))
    => LET runs == Runs(DataLines(fh)) IN
       /\ err = "none"
       /\ Len(results) = Len(runs)
       /\ \A i \in 1..Len(results) :
            /\ results[i].key = runs[i].seq_id
            /\ \E n \in 0..Len(results[i].imd) :
                 SubSeq(results[i].imd, n + 1, Len(results[i].imd))
                   = RunIntervals(fh, i)

\* C7: for an input of well-formed lines, _gff3_to_interval_metadata with
\* rec_num = N adds exactly the features of the N-th run when there are at
\* least N runs, and fails adding nothing when there are fewer.
C7_NthGroupOnly ==
    (ReadReturned /\ AllWellFormed(fh))
    => IF rec_num <= Len(Runs(DataLines(fh)))
       THEN err = "none" /\ imd = imd0 \o RunIntervals(fh, rec_num)
       ELSE err # "none" /\ imd = imd0

\* for each data line of the output, the interval and the bound it was
\* printed for: the bounds of the collection in iteration order
RECURSIVE FlatBounds(_, _)
FlatBounds(im, from) ==
    IF from > Len(im) THEN <<>>
    ELSE [j \in 1..Len(im[from].bounds) |->
            [interval |-> from, bound |-> im[from].bounds[j]]]
         \o FlatBounds(im, from + 1)

\* the metadata key the writer prints in column c (from 1) of a data line
ColumnKey(c) ==
    CASE c = 2 -> "source" [] c = 3 -> "type" [] c = 6 -> "score"
      [] c = 7 -> "strand" [] c = 8 -> "phase" [] c = 9 -> "ATTR"

C9_NineColumnsPerLine ==
    /\ \A k \in 2..Len(out) : NumFields(out[k]) = 9
    /\ WriteReturned => Len(out) - 1 = Len(FlatBounds(imd, 1))

RECURSIVE ConcatLines(_)
ConcatLines(gs) ==
    IF gs = <<>> THEN <<>> ELSE gs[1].lines \o ConcatLines(Tail(gs))

AllHaveTab(s) ==
    \A i \in 1..Len(DataLines(s)) : NumFields(DataLines(s)[i]) >= 2

\* ---- sniffer ----

IsBlankLine(line) == \A i \in 1..Len(line) : line[i] \in Whitespace
LeadingBlanks ==
    CHOOSE n \in 0..Len(sniff_fh) :
        /\ \A i \in 1..n : IsBlankLine(sniff_fh[i])
        /\ (n < Len(sniff_fh) => ~IsBlankLine(sniff_fh[n + 1]))
HasFirstTextLine == LeadingBlanks < Len(sniff_fh)
FirstTextLine == sniff_fh[LeadingBlanks + 1]
\* '##gff-version', then at least one whitespace character, then '3'
VersionThreeDirective(line) ==
    \E k \in 1..Len(line) :
        /\ Len(line) >= Len(Directive) + k + 1
        /\ SubSeq(line, 1, Len(Directive)) = Directive
        /\ \A j \in (Len(Directive) + 1)..(Len(Directive) + k) :
               line[j] \in Whitespace
        /\ line[Len(Directive) + k + 1] = "3"
SniffDone == sniff_pc = "done"

\* C11: _gff3_sniffer returns (True, {}) exactly when the file has at most
\* MaxBlanks leading blank lines and its first line with text starts with
\* '##gff-version', at least one whitespace character and '3'; for every
\* other file it returns (False, {}); it has no way to end but a return.
C11_SnifferMatchesDirective ==
    /\ sniff_pc \in {"idle", "blanks", "next", "match", "done"}
    /\ SniffDone =>
           sniff_result =
               <<(/\ LeadingBlanks <= MaxBlanks
                  /\ HasFirstTextLine
                  /\ VersionThreeDirective(FirstTextLine)), {}>>

C11_Witness ==
    /\ SniffDone
    /\ sniff_result = <<TRUE, {}>>
    /\ LeadingBlanks = MaxBlanks
    /\ FirstTextLine = LineV321

\* ---- attribute column ----

CountOf(seg, c) == Cardinality({i \in 1..Len(seg) : seg[i] = c})
ExactlyOneEq(seg) == CountOf(seg, "=") = 1
Segments == split(attr_s, ";")
AllSegmentsWellFormed == \A n \in 1..Len(Segments) : ExactlyOneEq(Segments[n])
EqPos(seg) == CHOOSE i \in 1..Len(seg) : seg[i] = "="
TagOf(seg) == SubSeq(seg, 1, EqPos(seg) - 1)
ValueOf(seg) == SubSeq(seg, EqPos(seg) + 1, Len(seg))
ResultingKey(seg) ==
    IF TagOf(seg) \in DOMAIN _vocabulary_change
    THEN _vocabulary_change[TagOf(seg)]
    ELSE TagOf(seg)
AttrEnded == attr_pc \in {"returned", "raised"}
MalformedAttributeError == "GFF3FormatError"

C13_MalformedAttributeRaises ==
    AttrEnded =>
        IF AllSegmentsWellFormed
        THEN attr_pc = "returned" /\ attr_err = "none"
        ELSE attr_pc = "raised" /\ attr_err = MalformedAttributeError

\* C14: once _yield_record has run to its end, the line lists of its groups,
\* one after the other, are the data lines of the input in input order, and
\* every data line whose id differs from that of the data line before it is
\* the first line of a later group.
C14_NoLineLostOrDuplicated ==
    (exhausted /\ AllHaveTab(fh))
    => LET ds == DataLines(fh) IN
       /\ ConcatLines(groups) = ds
       /\ \A i \in 2..Len(ds) :
            LeadingId(ds[i]) # LeadingId(ds[i - 1])
            => \E g \in 2..Len(groups) :
                 groups[g].lines # <<>> /\ groups[g].lines[1] = ds[i]

\* C15: every line of a yielded group with a non-empty line list has, before
\* its first tab, the sequence id the group was yielded with.
C15_GroupLinesShareYieldedId ==
    \A g \in 1..Len(groups) :
        \A i \in 1..Len(groups[g].lines) :
            LeadingId(groups[g].lines[i]) = groups[g].seq_id

\* C16: when the line source is exhausted the accumulated group is yielded
\* once and the generator is not resumed; a stream without data lines gives
\* exactly one group, with an empty line list, and reading that group adds
\* nothing to the collection.
C16_FinalGroupOnce ==
    /\ exhausted
         => /\ fpos = Len(fh)
            /\ pc # "yield"
            /\ groups # <<>>
            /\ groups[Len(groups)] = [seq_id |-> current, lines |-> lines]
    /\ DataLines(fh) = <<>>
         => /\ Len(groups) <= 1
            /\ \A g \in 1..Len(groups) : groups[g].lines = <<>>
            /\ (pc \in {"got", "parse"} \/ ReadReturned \/ GeneratorEnded)
                 => Len(groups) = 1
            /\ (ReadReturned /\ rec_num = 1)
                 => (err = "none" /\ plog = <<>> /\ imd = imd0)

\* C16 witness: a stream of comments only was read with rec_num = 1 into a
\* collection that held an interval
C16_Witness ==
    /\ ReadReturned
    /\ fh = <<LineComment, LineComment>>
    /\ rec_num = 1
    /\ exhausted
    /\ groups = <<[seq_id |-> PyFalse, lines |-> <<>>]>>
    /\ Len(imd) = 1

\* C17: a step of _parse_record that raises leaves the collections as they
\* were: the failing line adds no record, complete or partial.
C17_FailingLineAddsNothing ==
    [][(pc = "parse" /\ err' # err) => (imd' = imd /\ imds' = imds)]_vars

\* C17 witness: the second line of a group raised the phase error after the
\* first was added
C17_Witness ==
    /\ ReadReturned
    /\ err = PhaseError
    /\ Len(plog) = 2
    /\ plog[2].outcome = PhaseError
    /\ Len(imd) = Len(imd0) + 1

\* C18: the line written for a stored bound (s, e) has seq_id in its first
\* column, s+1 in its start column and e in its end column, and
\* _parse_record reads the bound (s, e) back from it.
C18_BoundRoundTrip ==
    \A k \in 1..(Len(out) - 1) :
        LET line  == out[k + 1]
            bound == FlatBounds(imd, 1)[k].bound
        IN  /\ Field(line, 1) = seq_id
            /\ Field(line, 4) = str(bound[1] + 1)
            /\ Field(line, 5) = str(bound[2])
            /\ ParseLine(line).outcome \in {"added", PhaseError}
            /\ ParseLine(line).outcome = "added"
                 => ParseLine(line).bounds = <<bound>>

\* C19: when _parse_record raises on the k-th line of a group, the caller's
\* collection is what it held before the call followed by the records of the
\* first k-1 lines, in line order.
C19_FailedReadNotRolledBack ==
    ( /\ calls # <<>> /\ calls[1] = "read"
      /\ plog # <<>>
      /\ plog[Len(plog)].outcome # "added" )
    => /\ err = plog[Len(plog)].outcome
       /\ imd = imd0 \o ExpectedIntervals(SubSeq(plines, 1, Len(plog) - 1))

\* C19 witness: the third line raised; the collection holds what it held
\* before and the records of the first two lines
C19_Witness ==
    /\ ReadReturned
    /\ Len(plog) = 3
    /\ err = ColumnsError
    /\ Len(imd0) = 0
    /\ imd = <<ExpectedInterval(plines[1]), ExpectedInterval(plines[2])>>

=============================================================================
